---- MODULE Spec2Model ----
(***************************************************************************)
(* A model of the SciPy integration demonstration scripts of               *)
(* practical-scipy (src/integrate/scripts).                                *)
(*                                                                         *)
(* Python floats are modelled as exact rationals <<numerator, denominator>>*)
(* in lowest terms with a positive denominator: every constant of the      *)
(* scripts (0.024, 0.5, ...) is a rational, and the modelled arithmetic is *)
(* the scripts' arithmetic without rounding.                               *)
(***************************************************************************)
EXTENDS Integers, Sequences, FiniteSets

----------------------------------------------------------------------------
(* Bounds of the model *)

\* grayscott1d is run on states of 2*N entries, N in 1..MaxN
MaxN == 3
\* entries of a state vector y are drawn from 0..MaxVal
MaxVal == 1
\* contents of freshly allocated (np.empty_like) memory are drawn from 0..MaxGarbage
MaxGarbage == 1

----------------------------------------------------------------------------
(* State.  Each script is a program of its own: a specification runs one    *)
(* script and leaves the variables of the others idle.                      *)

VARIABLES
    \* banded-jacobian-matrix.py, grayscott1d
    y,        \* grayscott1d's argument y: a function 0..2N-1 -> rationals
    dydt,     \* the output array, allocated uninitialised
    written,  \* ghost: how many times each entry of dydt has been assigned
    gpc,      \* the statement grayscott1d is at
    \* differential-equations.py, func and gradient as the solver calls them
    ode_t,    \* the time t of the call
    ode_y,    \* the state y of the call: a function 0..1 -> integers
    ode_f,    \* func(t, y)
    ode_fs,   \* func(t, y + e_j) for j = 0, 1
    ode_jac,  \* gradient(t, y)
    opc,      \* the call the solver is at
    \* integrate-using-samples.py
    smp_x,    \* x: the sample points, a sequence
    y1,       \* f1(x)
    I1,       \* the outcome of integrate.simpson(y1, x)
    y2,       \* f2(x)
    I2,       \* the outcome of integrate.simpson(y2, x)
    smp_out,  \* what the script has printed
    spc,      \* the statement the script is at
    \* general-multiple-integration.py, lines 13 and 38
    mq_stmt,  \* the statement running: "L13" (dblquad) or "L38" (nquad)
    mq_pc,    \* where the nested quadrature is
    mq_P,     \* the delegate's rule: the number of Simpson panels per interval
    mq_out,   \* the outer integral: bounds, next node, weighted sum so far
    mq_in,    \* the inner integral: bounds, next node, weighted sum so far
    mq_args,  \* the values of the variables fixed so far (outer first)
    mq_call,  \* the last call of a bound function: which, and its arguments
    area,     \* line 13's result
    nq_area,  \* line 38's result
    \* general-integration.py and the main part of banded-jacobian-matrix.py
    sc_script,  \* the script that runs
    sc_pc,      \* the statement it is at
    result,     \* general-integration.py's variable result
    sc_I,       \* general-integration.py's variable I
    sol_a,      \* banded-jacobian-matrix.py's sol_a
    sol_b,      \* banded-jacobian-matrix.py's sol_b
    sc_tmp,     \* the array an expression under evaluation is building
    sc_out,     \* the line printed last
    sc_run,     \* ghost: the delegate's last quadrature run: site, value, abserr
    sc_handed   \* ghost: what the code that made that run handed on from it

gsVars == <<y, dydt, written, gpc>>
odeVars == <<ode_t, ode_y, ode_f, ode_fs, ode_jac, opc>>
smpVars == <<smp_x, y1, I1, y2, I2, smp_out, spc>>
mqVars == <<mq_stmt, mq_pc, mq_P, mq_out, mq_in, mq_args, mq_call, area, nq_area>>
scVars ==
    <<sc_script, sc_pc, result, sc_I, sol_a, sol_b, sc_tmp, sc_out, sc_run, sc_handed>>
vars == <<gsVars, odeVars, smpVars, mqVars, scVars>>

GsIdle == y = <<>> /\ dydt = <<>> /\ written = <<>> /\ gpc = "idle"
OdeIdle ==
    ode_t = 0 /\ ode_y = <<>> /\ ode_f = <<>> /\ ode_fs = <<>> /\ ode_jac = <<>>
    /\ opc = "idle"

None == [kind |-> "None"]
SmpIdle ==
    smp_x = <<>> /\ y1 = <<>> /\ I1 = None /\ y2 = <<>> /\ I2 = None
    /\ smp_out = <<>> /\ spc = "idle"

MqIdle ==
    mq_stmt = "idle" /\ mq_pc = "idle" /\ mq_P = 0 /\ mq_out = None /\ mq_in = None
    /\ mq_args = <<>> /\ mq_call = None /\ area = None /\ nq_area = None

ScIdle ==
    sc_script = "idle" /\ sc_pc = "idle" /\ result = None /\ sc_I = None
    /\ sol_a = None /\ sol_b = None /\ sc_tmp = <<>> /\ sc_out = None
    /\ sc_run = None /\ sc_handed = None

----------------------------------------------------------------------------
(* Exact rational arithmetic standing for Python's float arithmetic *)

Abs(n) == IF n < 0 THEN -n ELSE n

RECURSIVE GCD(_, _)
GCD(a, b) == IF b = 0 THEN a ELSE GCD(b, a % b)

\* the rational n/d (d # 0) in lowest terms, denominator positive
Rat(n, d) ==
    LET s == IF d < 0 THEN -1 ELSE 1
        g == GCD(Abs(n), Abs(d))
    IN  <<(s * n) \div g, (s * d) \div g>>

RInt(n) == <<n, 1>>
RAdd(a, b) == Rat(a[1] * b[2] + b[1] * a[2], a[2] * b[2])
RNeg(a) == <<-a[1], a[2]>>
RSub(a, b) == RAdd(a, RNeg(b))
RMul(a, b) == Rat(a[1] * b[1], a[2] * b[2])
RDiv(a, b) == Rat(a[1] * b[2], a[2] * b[1])

----------------------------------------------------------------------------
(* banded-jacobian-matrix.py: the right-hand side grayscott1d *)

\* the script's parameters (lines 49-53)
f == Rat(24, 1000)
k == Rat(55, 1000)
du == Rat(1, 100)
dv == Rat(5, 1000)
dx == Rat(25, 1000)

G(u_, v_, f_, k_) ==
    RSub(RMul(f_, RSub(RInt(1), u_)), RMul(u_, RMul(v_, v_)))

H(u_, v_, f_, k_) ==
    RAdd(RNeg(RMul(RAdd(f_, k_), v_)), RMul(u_, RMul(v_, v_)))

\* len(y) and the length of the views u, v, dudt, dvdt (an even-length y)
Len2(yy) == Cardinality(DOMAIN yy)
NPoints(yy) == Len2(yy) \div 2

\* the interleaved views: u = y[::2], v = y[1::2]; dudt, dvdt likewise in dydt
UStart == 0
VStart == 1
UIdx(m) == 2 * m + UStart
VIdx(m) == 2 * m + VStart
u(yy, m) == yy[UIdx(m)]
vBlocked(yy, m) == yy[(Cardinality(DOMAIN yy) \div 2) + m]
v(yy, m) == yy[VIdx(m)]

\* Python's a[-1], a[-2] on a view of n entries
Last(n) == n - 1
Last2(n) == n - 2

\* the positions the slice 1:-1 selects in a view of n entries
InteriorFrom2(n) == 2 .. (n - 2)
Interior(n) == 1 .. (n - 2)

\* np.diff(a, 2)[m - 1] for interior position m: a[m+1] - 2 a[m] + a[m-1]
Diff2(a0, a1, a2) == RSub(RSub(a2, a1), RSub(a1, a0))

\* c * lap / dx ** 2
Diffusion(c, lap) == RDiv(RMul(c, lap), RMul(dx, dx))

\* -2.0 * a + 2.0 * b
EndLap(a, b) == RAdd(RMul(RInt(-2), a), RMul(RInt(2), b))

\* the right-hand sides of lines 35-37 and 39-41
DudtFirst(yy) ==
    RAdd(G(u(yy, 0), v(yy, 0), f, k), Diffusion(du, EndLap(u(yy, 0), u(yy, 1))))
DudtInterior(yy, m) ==
    RAdd(G(u(yy, m), v(yy, m), f, k),
         Diffusion(du, Diff2(u(yy, m - 1), u(yy, m), u(yy, m + 1))))
DudtLast(yy) ==
    LET n == NPoints(yy)
    IN  RAdd(G(u(yy, Last(n)), v(yy, Last(n)), f, k),
             Diffusion(du, EndLap(u(yy, Last(n)), u(yy, Last2(n)))))
DvdtFirst(yy) ==
    RAdd(H(u(yy, 0), v(yy, 0), f, k), Diffusion(dv, EndLap(v(yy, 0), v(yy, 1))))
DvdtInterior(yy, m) ==
    RAdd(H(u(yy, m), v(yy, m), f, k),
         Diffusion(dv, Diff2(v(yy, m - 1), v(yy, m), v(yy, m + 1))))
DvdtLast(yy) ==
    LET n == NPoints(yy)
    IN  RAdd(H(u(yy, Last(n)), v(yy, Last(n)), f, k),
             Diffusion(dv, EndLap(v(yy, Last(n)), v(yy, Last2(n)))))

\* view[m] = vals[m] for m in ms, where view = a[start::2]; and the ghost count
Assign(a, start, ms, vals) ==
    [i \in DOMAIN a |->
        IF \E m \in ms : 2 * m + start = i
        THEN vals[CHOOSE m \in ms : 2 * m + start = i]
        ELSE a[i]]
Count(w, start, ms) ==
    [i \in DOMAIN w |-> w[i] + Cardinality({m \in ms : 2 * m + start = i})]

GsStates == UNION {[0 .. (2 * n - 1) -> {RInt(x) : x \in 0 .. MaxVal}] : n \in 1 .. MaxN}

GsFrame == UNCHANGED <<odeVars, smpVars, mqVars, scVars>>

GsInit ==
    /\ y \in GsStates
    /\ dydt = <<>>
    /\ written = <<>>
    /\ gpc = "L26"

\* line 26: dydt = np.empty_like(y): the entries hold whatever the memory held
Alloc ==
    /\ gpc = "L26"
    /\ \E g \in 0 .. MaxGarbage : dydt' = [i \in DOMAIN y |-> RInt(g)]
    /\ written' = [i \in DOMAIN y |-> 0]
    /\ gpc' = "L35"
    /\ UNCHANGED y
    /\ GsFrame

\* line 35: dudt[0] = ...; u[1] raises IndexError on a one-point grid
Line35 ==
    /\ gpc = "L35"
    /\ \/ /\ NPoints(y) < 2
          /\ gpc' = "IndexError"
          /\ UNCHANGED <<dydt, written>>
       \/ /\ NPoints(y) >= 2
          /\ dydt' = Assign(dydt, UStart, {0}, [m \in {0} |-> DudtFirst(y)])
          /\ written' = Count(written, UStart, {0})
          /\ gpc' = "L36"
    /\ UNCHANGED y
    /\ GsFrame

\* line 36: dudt[1:-1] = ...
Line36 ==
    /\ gpc = "L36"
    /\ dydt' = Assign(dydt, UStart, Interior(NPoints(y)), [m \in Interior(NPoints(y)) |-> DudtInterior(y, m)])
    /\ written' = Count(written, UStart, Interior(NPoints(y)))
    /\ gpc' = "L37"
    /\ UNCHANGED y
    /\ GsFrame

\* line 37: dudt[-1] = ...
Line37 ==
    /\ gpc = "L37"
    /\ dydt' = Assign(dydt, UStart, {Last(NPoints(y))}, [m \in {Last(NPoints(y))} |-> DudtLast(y)])
    /\ written' = Count(written, UStart, {Last(NPoints(y))})
    /\ gpc' = "L39"
    /\ UNCHANGED y
    /\ GsFrame

\* line 39: dvdt[0] = ...
Line39 ==
    /\ gpc = "L39"
    /\ dydt' = Assign(dydt, VStart, {0}, [m \in {0} |-> DvdtFirst(y)])
    /\ written' = Count(written, VStart, {0})
    /\ gpc' = "L40"
    /\ UNCHANGED y
    /\ GsFrame

\* line 40: dvdt[1:-1] = ...
Line40 ==
    /\ gpc = "L40"
    /\ dydt' = Assign(dydt, VStart, Interior(NPoints(y)), [m \in Interior(NPoints(y)) |-> DvdtInterior(y, m)])
    /\ written' = Count(written, VStart, Interior(NPoints(y)))
    /\ gpc' = "L41"
    /\ UNCHANGED y
    /\ GsFrame

\* line 41: dvdt[-1] = ...
Line41 ==
    /\ gpc = "L41"
    /\ dydt' = Assign(dydt, VStart, {Last(NPoints(y))}, [m \in {Last(NPoints(y))} |-> DvdtLast(y)])
    /\ written' = Count(written, VStart, {Last(NPoints(y))})
    /\ gpc' = "return"
    /\ UNCHANGED y
    /\ GsFrame

GsNext == Alloc \/ Line35 \/ Line36 \/ Line37 \/ Line39 \/ Line40 \/ Line41

\* grayscott1d as a function of y alone (N >= 2), for comparing two evaluations
grayscott1d(yy) ==
    LET n == NPoints(yy)
    IN  [i \in DOMAIN yy |->
            LET m == i \div 2
            IN  IF i % 2 = 0
                THEN IF m = 0 THEN DudtFirst(yy)
                     ELSE IF m = Last(n) THEN DudtLast(yy)
                     ELSE DudtInterior(yy, m)
                ELSE IF m = 0 THEN DvdtFirst(yy)
                     ELSE IF m = Last(n) THEN DvdtLast(yy)
                     ELSE DvdtInterior(yy, m)]

\* y with entry j replaced by val
Perturb(yy, j, val) == [yy EXCEPT ![j] = val]

\* the values an entry of y is perturbed to
PerturbVals == {RInt(x) : x \in 0 .. (MaxVal + 1)}

\* C8: grayscott1d has lower and upper bandwidth 2 in the interleaved layout:
\* changing y[j] leaves every dydt[i] with |i - j| > 2 as it was, end points
\* included, so ml = 2, mu = 2 drops no nonzero Jacobian entry.
C8_BandedDependency ==
    gpc = "return" =>
        \A j \in DOMAIN y : \A val \in PerturbVals : \A i \in DOMAIN y :
            Abs(i - j) > 2 => grayscott1d(Perturb(y, j, val))[i] = dydt[i]

\* a returned state with interior points in which an entry two places off the
\* diagonal does change the result (the band of width 2 is used)
C8_Witness ==
    /\ gpc = "return"
    /\ NPoints(y) = 3
    /\ \E j \in DOMAIN y : \E val \in PerturbVals : \E i \in DOMAIN y :
        /\ Abs(i - j) = 2
        /\ grayscott1d(Perturb(y, j, val))[i] # dydt[i]

\* C9: for N >= 2 the six slice assignments write each of the 2N entries of the
\* uninitialised dydt exactly once: none is overwritten on the way, none is
\* left unwritten at the return, and the result holds no allocation garbage.
C9_WrittenExactlyOnce ==
    /\ \A i \in DOMAIN written : written[i] <= 1
    /\ gpc = "return" =>
        /\ NPoints(y) >= 2
        /\ \A i \in DOMAIN y : written[i] = 1
        /\ dydt = grayscott1d(y)

C9_Witness ==
    /\ gpc = "return"
    /\ NPoints(y) = 3
    /\ \A i \in DOMAIN y : written[i] = 1

InitGrayScott == GsInit /\ OdeIdle /\ SmpIdle /\ MqIdle /\ ScIdle

SpecGrayScott == InitGrayScott /\ [][GsNext]_vars

----------------------------------------------------------------------------
(* differential-equations.py: the right-hand side func and its Jacobian     *)
(* gradient, as a solver given jac=gradient evaluates them at a point (t, y) *)

\* the solver's points (t, y) are drawn from -MaxT..MaxT and (-MaxY..MaxY)^2
MaxT == 2
MaxY == 1

\* def func(t, y): return [t * y[1], y[0]]
func(t, yy) == [i \in 0 .. 1 |-> IF i = 0 THEN t * yy[1] ELSE yy[0]]

\* def gradient(t, y): return [[0, t], [1, 0]]
gradientTransposed(t, yy) ==
    [i \in 0 .. 1 |-> [j \in 0 .. 1 |->
        IF i = 0 THEN (IF j = 0 THEN 0 ELSE 1) ELSE (IF j = 0 THEN t ELSE 0)]]
gradient(t, yy) ==
    [i \in 0 .. 1 |-> [j \in 0 .. 1 |->
        IF i = 0 THEN (IF j = 0 THEN 0 ELSE t) ELSE (IF j = 0 THEN 1 ELSE 0)]]

\* y + e_j
Shift(yy, j) == [yy EXCEPT ![j] = @ + 1]

OdeFrame == UNCHANGED <<gsVars, smpVars, mqVars, scVars>>

OdeInit ==
    /\ ode_t \in (-MaxT) .. MaxT
    /\ ode_y \in [0 .. 1 -> (-MaxY) .. MaxY]
    /\ ode_f = <<>>
    /\ ode_fs = <<>>
    /\ ode_jac = <<>>
    /\ opc = "func"

\* the solver evaluates the right-hand side at (t, y)
CallFunc ==
    /\ opc = "func"
    /\ ode_f' = func(ode_t, ode_y)
    /\ opc' = "func_shifted"
    /\ UNCHANGED <<ode_t, ode_y, ode_fs, ode_jac>>
    /\ OdeFrame

\* and at the neighbouring points (t, y + e_j)
CallFuncShifted ==
    /\ opc = "func_shifted"
    /\ ode_fs' = [j \in 0 .. 1 |-> func(ode_t, Shift(ode_y, j))]
    /\ opc' = "jac"
    /\ UNCHANGED <<ode_t, ode_y, ode_f, ode_jac>>
    /\ OdeFrame

\* the Radau run (line 33) evaluates jac=gradient at (t, y)
CallGradient ==
    /\ opc = "jac"
    /\ ode_jac' = gradient(ode_t, ode_y)
    /\ opc' = "done"
    /\ UNCHANGED <<ode_t, ode_y, ode_f, ode_fs>>
    /\ OdeFrame

OdeNext == CallFunc \/ CallFuncShifted \/ CallGradient

InitOde == OdeInit /\ GsIdle /\ SmpIdle /\ MqIdle /\ ScIdle

SpecOde == InitOde /\ [][OdeNext]_vars

\* C10: gradient is the Jacobian of func: func is linear in y, so
\* func(t, y + e_j) - func(t, y) is column j of gradient(t, y), entry by entry.
C10_GradientIsJacobian ==
    opc = "done" =>
        \A i \in 0 .. 1 : \A j \in 0 .. 1 :
            ode_fs[j][i] - ode_f[i] = ode_jac[i][j]

\* a point with t outside {0, 1}, where the two off-diagonal entries differ
C10_Witness ==
    /\ opc = "done"
    /\ ode_t = 2
    /\ ode_jac[0][1] = 2
    /\ ode_jac[1][0] = 1
    /\ ode_fs[1][0] - ode_f[0] = 2

----------------------------------------------------------------------------
(* integrate-using-samples.py: Simpson integration of sampled functions     *)

\* the script integrates over three sample points (line 13)
NSamples == 3
\* sample points are drawn from 0..MaxX
MaxX == 4

\* def f1(x): return x ** 2, and def f2(x): return x ** 3, on an array
f1Cubed(xx) == [i \in DOMAIN xx |-> xx[i] * xx[i] * xx[i]]
f1(xx) == [i \in DOMAIN xx |-> xx[i] * xx[i]]
f2(xx) == [i \in DOMAIN xx |-> xx[i] * xx[i] * xx[i]]

Result(val) == [kind |-> "Result", value |-> val]
DelegateError == [kind |-> "DelegateError"]
InsufficientSamplesError == [kind |-> "InsufficientSamplesError"]

\* The delegate, scipy.integrate.simpson(y, x): the outcomes it can give.
\* Three samples: Simpson's rule for unequal spacing h0, h1,
\*     hsum/6 * (y0 * (2 - 1/(h0/h1)) + y1 * (hsum * hsum/(h0 * h1)) + y2 * (2 - h0/h1)).
\* Two samples: the trapezoid value.  Fewer: zero, or an exception of the
\* library's own, depending on its version.
Simpson3(yy, xx) ==
    LET h0 == RInt(xx[2] - xx[1])
        h1 == RInt(xx[3] - xx[2])
        hsum == RAdd(h0, h1)
        hprod == RMul(h0, h1)
        h0divh1 == RDiv(h0, h1)
    IN  RMul(RDiv(hsum, RInt(6)),
             RAdd(RAdd(RMul(RInt(yy[1]), RSub(RInt(2), RDiv(RInt(1), h0divh1))),
                       RMul(RInt(yy[2]), RMul(hsum, RDiv(hsum, hprod)))),
                  RMul(RInt(yy[3]), RSub(RInt(2), h0divh1))))

Trapezoid2(yy, xx) ==
    RMul(Rat(1, 2), RMul(RInt(xx[2] - xx[1]), RInt(yy[1] + yy[2])))

Simpson(yy, xx) ==
    IF Len(xx) = 3 THEN {Result(Simpson3(yy, xx))}
    ELSE IF Len(xx) = 2 THEN {Result(Trapezoid2(yy, xx))}
    ELSE {Result(RInt(0)), DelegateError}

\* lines 15 and 19: the script hands its samples to the delegate as they are
RunSampledChecked(yy, xx) ==
    IF Len(xx) < 3 THEN {InsufficientSamplesError} ELSE Simpson(yy, xx)
RunSampled(yy, xx) == Simpson(yy, xx)

\* strictly increasing sample points, at most NSamples of them
Grids ==
    {g \in UNION {[1 .. n -> 0 .. MaxX] : n \in 0 .. NSamples} :
        \A i \in 1 .. (Len(g) - 1) : g[i] < g[i + 1]}

SmpFrame == UNCHANGED <<gsVars, odeVars, mqVars, scVars>>

SmpInit ==
    /\ smp_x \in Grids
    /\ y1 = <<>>
    /\ I1 = None
    /\ y2 = <<>>
    /\ I2 = None
    /\ smp_out = <<>>
    /\ spc = "L14"

\* line 14: y1 = f1(x)
SmpLine14 ==
    /\ spc = "L14"
    /\ y1' = f1(smp_x)
    /\ spc' = "L15"
    /\ UNCHANGED <<smp_x, I1, y2, I2, smp_out>>
    /\ SmpFrame

\* line 15: I1 = integrate.simpson(y1, x); an exception ends the script
SmpLine15 ==
    /\ spc = "L15"
    /\ \E r \in RunSampled(y1, smp_x) :
        /\ I1' = r
        /\ spc' = IF r.kind = "Result" THEN "L16" ELSE "raised"
    /\ UNCHANGED <<smp_x, y1, y2, I2, smp_out>>
    /\ SmpFrame

\* line 16: print(f"{I1 = }")
SmpLine16 ==
    /\ spc = "L16"
    /\ smp_out' = Append(smp_out, I1.value)
    /\ spc' = "L18"
    /\ UNCHANGED <<smp_x, y1, I1, y2, I2>>
    /\ SmpFrame

\* line 18: y2 = f2(x)
SmpLine18 ==
    /\ spc = "L18"
    /\ y2' = f2(smp_x)
    /\ spc' = "L19"
    /\ UNCHANGED <<smp_x, y1, I1, I2, smp_out>>
    /\ SmpFrame

\* line 19: I2 = integrate.simpson(y2, x)
SmpLine19 ==
    /\ spc = "L19"
    /\ \E r \in RunSampled(y2, smp_x) :
        /\ I2' = r
        /\ spc' = IF r.kind = "Result" THEN "L20" ELSE "raised"
    /\ UNCHANGED <<smp_x, y1, I1, y2, smp_out>>
    /\ SmpFrame

\* line 20: print(f"{I2 = }")
SmpLine20 ==
    /\ spc = "L20"
    /\ smp_out' = Append(smp_out, I2.value)
    /\ spc' = "done"
    /\ UNCHANGED <<smp_x, y1, I1, y2, I2>>
    /\ SmpFrame

SmpNext ==
    SmpLine14 \/ SmpLine15 \/ SmpLine16 \/ SmpLine18 \/ SmpLine19 \/ SmpLine20

InitSamples == SmpInit /\ GsIdle /\ OdeIdle /\ MqIdle /\ ScIdle

SpecSamples == InitSamples /\ [][SmpNext]_vars

\* C1: Simpson integration of y = x^2 sampled at x = [1, 3, 4] returns the
\* analytic integral of x^2 over [1, 4], which is 21; on every three-point
\* grid it returns (x[-1]^3 - x[0]^3)/3.
C1_SimpsonExactOnSquare ==
    (Len(smp_x) = 3 /\ I1 # None) =>
        /\ I1 = Result(Rat(smp_x[3] * smp_x[3] * smp_x[3]
                             - smp_x[1] * smp_x[1] * smp_x[1], 3))
        /\ smp_x = <<1, 3, 4>> => I1 = Result(RInt(21))

\* the script's own run: x = [1, 3, 4], y1 = [1, 9, 16], I1 = 21 printed
C1_Witness ==
    /\ smp_x = <<1, 3, 4>>
    /\ y1 = <<1, 9, 16>>
    /\ I1 = Result(RInt(21))
    /\ Len(smp_out) >= 1
    /\ smp_out[1] = RInt(21)

----------------------------------------------------------------------------
(* general-multiple-integration.py: the triangular-region integral of x*y,  *)
(* by dblquad (line 13) and by nquad (line 38)                              *)

\* the delegate's quadrature rule uses 1..MaxPanels Simpson panels per interval
MaxPanels == 2

\* line 13: dblquad(lambda x, y: x * y, 0, 0.5, lambda x: 0, lambda x: 1 - 2 * x)
dblquad_func(xx, yy) == RMul(xx, yy)
dblquad_a == RInt(0)
dblquad_b == Rat(1, 2)
gfun(xx) == RInt(0)
hfun(xx) == RSub(RInt(1), RMul(RInt(2), xx))

\* lines 26-35
f_n(xx, yy) == RMul(xx, yy)
bounds_y == <<RInt(0), Rat(1, 2)>>
bounds_xUnscaled(yy) == <<RInt(0), RSub(RInt(1), yy)>>
bounds_x(yy) == <<RInt(0), RSub(RInt(1), RMul(RInt(2), yy))>>

\* line 38: nquad(f_n, [bounds_x, bounds_y])
nquad_rangesSwapped == <<"bounds_y", "bounds_x">>
nquad_ranges == <<"bounds_x", "bounds_y">>

\* dblquad(func, a, b, gfun, hfun) is nquad(func, [temp_ranges, [a, b]]) with
\* temp_ranges(*args) = [gfun(args[0]), hfun(args[0])]
dblquad_ranges == <<"temp_ranges", "ab">>

Ranges(stmt) == IF stmt = "L13" THEN dblquad_ranges ELSE nquad_ranges

\* Calling a bound function with the arguments args: its [low, high], or the
\* TypeError Python raises when the number of arguments is not the declared one
\* (temp_ranges reads args[0]; a constant range ignores its arguments).
CallRange(fn, args) ==
    CASE fn = "bounds_y" -> IF Len(args) = 0 THEN bounds_y ELSE "TypeError"
      [] fn = "bounds_x" -> IF Len(args) = 1 THEN bounds_x(args[1]) ELSE "TypeError"
      [] fn = "temp_ranges" ->
            IF Len(args) >= 1 THEN <<gfun(args[1]), hfun(args[1])>> ELSE "TypeError"
      [] fn = "ab" -> <<dblquad_a, dblquad_b>>

\* the integrand of the statement, called as func(x0, x1): x0 the inner variable
Integrand(stmt, x0, x1) ==
    IF stmt = "L13" THEN dblquad_func(x0, x1) ELSE f_n(x0, x1)

\* The delegate's 1-D rule, composite Simpson with P panels on [low, high]:
\* node i of 0..2P, its coefficient 1, 4, 2, ..., 4, 1, and the value h/3 * sum
Node(low, high, i, P) ==
    RAdd(low, RDiv(RMul(RSub(high, low), RInt(i)), RInt(2 * P)))
Coef(i, P) == IF i = 0 \/ i = 2 * P THEN 1 ELSE IF i % 2 = 1 THEN 4 ELSE 2
QuadValue(low, high, sum, P) ==
    RMul(RDiv(RSub(high, low), RInt(6 * P)), sum)

Quad0(bnd) == [low |-> bnd[1], high |-> bnd[2], i |-> 0, sum |-> RInt(0)]

MqFrame == UNCHANGED <<gsVars, odeVars, smpVars, scVars>>

MqInit ==
    /\ mq_stmt = "L13"
    /\ mq_pc = "range_outer"
    /\ mq_P \in 1 .. MaxPanels
    /\ mq_out = None
    /\ mq_in = None
    /\ mq_args = <<>>
    /\ mq_call = None
    /\ area = None
    /\ nq_area = None

\* depth 0: the last range gives the bounds of the outermost variable; it is
\* called with the values fixed so far, which are none
RangeOuter ==
    /\ mq_pc = "range_outer"
    /\ LET fn == Ranges(mq_stmt)[2]
           bnd == CallRange(fn, mq_args)
       IN  /\ mq_call' = [fn |-> fn, args |-> mq_args, depth |-> 0]
           /\ mq_out' = IF bnd = "TypeError" THEN None ELSE Quad0(bnd)
           /\ mq_pc' = IF bnd = "TypeError" THEN "TypeError" ELSE "outer_node"
    /\ UNCHANGED <<mq_stmt, mq_P, mq_in, mq_args, area, nq_area>>
    /\ MqFrame

\* the outer rule fixes the outer variable at its next node, or is through
OuterNode ==
    /\ mq_pc = "outer_node"
    /\ \/ /\ mq_out.i <= 2 * mq_P
          /\ mq_args' = <<Node(mq_out.low, mq_out.high, mq_out.i, mq_P)>>
          /\ mq_pc' = "range_inner"
          /\ UNCHANGED <<mq_stmt, area, nq_area>>
       \/ /\ mq_out.i > 2 * mq_P
          /\ mq_stmt = "L13"
          /\ area' = Result(QuadValue(mq_out.low, mq_out.high, mq_out.sum, mq_P))
          /\ mq_stmt' = "L38"
          /\ mq_pc' = "range_outer"
          /\ UNCHANGED <<mq_args, nq_area>>
       \/ /\ mq_out.i > 2 * mq_P
          /\ mq_stmt = "L38"
          /\ nq_area' = Result(QuadValue(mq_out.low, mq_out.high, mq_out.sum, mq_P))
          /\ mq_pc' = "done"
          /\ UNCHANGED <<mq_stmt, mq_args, area>>
    /\ UNCHANGED <<mq_P, mq_out, mq_in, mq_call>>
    /\ MqFrame

\* depth 1: the first range gives the bounds of the inner variable; it is
\* called with the value the outer variable is fixed at
RangeInner ==
    /\ mq_pc = "range_inner"
    /\ LET fn == Ranges(mq_stmt)[1]
           bnd == CallRange(fn, mq_args)
       IN  /\ mq_call' = [fn |-> fn, args |-> mq_args, depth |-> 1]
           /\ mq_in' = IF bnd = "TypeError" THEN None ELSE Quad0(bnd)
           /\ mq_pc' = IF bnd = "TypeError" THEN "TypeError" ELSE "inner_node"
    /\ UNCHANGED <<mq_stmt, mq_P, mq_out, mq_args, area, nq_area>>
    /\ MqFrame

\* the inner rule evaluates func(x0, x1) at its next node, or is through and
\* hands its value to the outer rule
InnerNode ==
    /\ mq_pc = "inner_node"
    /\ \/ /\ mq_in.i <= 2 * mq_P
          /\ LET x0 == Node(mq_in.low, mq_in.high, mq_in.i, mq_P)
                 fx == Integrand(mq_stmt, x0, mq_args[1])
             IN  mq_in' = [mq_in EXCEPT
                     !.i = @ + 1,
                     !.sum = RAdd(@, RMul(RInt(Coef(mq_in.i, mq_P)), fx))]
          /\ UNCHANGED <<mq_out, mq_args, mq_pc>>
       \/ /\ mq_in.i > 2 * mq_P
          /\ LET val == QuadValue(mq_in.low, mq_in.high, mq_in.sum, mq_P)
             IN  mq_out' = [mq_out EXCEPT
                     !.i = @ + 1,
                     !.sum = RAdd(@, RMul(RInt(Coef(mq_out.i, mq_P)), val))]
          /\ mq_args' = <<>>
          /\ mq_pc' = "outer_node"
          /\ UNCHANGED mq_in
    /\ UNCHANGED <<mq_stmt, mq_P, mq_call, area, nq_area>>
    /\ MqFrame

MqNext == RangeOuter \/ OuterNode \/ RangeInner \/ InnerNode

InitMulti == MqInit /\ GsIdle /\ OdeIdle /\ SmpIdle /\ ScIdle

SpecMulti == InitMulti /\ [][MqNext]_vars

\* C4 as stated: the bound function of the outermost variable receives the
\* already-fixed values of the more deeply nested variables (one value here).
C4_Original ==
    (mq_call # None /\ mq_call.depth = 0) => Len(mq_call.args) = 1

\* C4 as amended: the direction is the reverse.  The bound function of a more
\* deeply nested variable receives the already-fixed values of the variables
\* outside it, and the outermost variable's bound function receives none: in
\* the nquad example bounds_y is called with no argument and bounds_x with the
\* value y is fixed at, and no call fails on its argument count.
C4_InnerBoundsReceiveOuterValues ==
    /\ mq_pc # "TypeError"
    /\ mq_call # None =>
        /\ mq_call.depth = 0 => mq_call.args = <<>>
        /\ (mq_call.depth = 1 /\ mq_pc = "inner_node") =>
            (mq_call.args = mq_args /\ Len(mq_args) = 1)
        /\ (mq_stmt = "L38" /\ mq_pc # "range_outer") =>
            /\ mq_call.depth = 0 => mq_call.fn = "bounds_y"
            /\ mq_call.depth = 1 => mq_call.fn = "bounds_x"
    /\ (mq_stmt = "L38" /\ mq_pc = "inner_node") =>
        /\ mq_in.low = RInt(0)
        /\ mq_in.high = RSub(RInt(1), RMul(RInt(2), mq_args[1]))

\* nquad has called bounds_x with y fixed at 1/4 and got [0, 1/2]
C4_Witness ==
    /\ mq_stmt = "L38"
    /\ mq_pc = "inner_node"
    /\ mq_call = [fn |-> "bounds_x", args |-> <<Rat(1, 4)>>, depth |-> 1]
    /\ mq_in.high = Rat(1, 2)

\* C5: dblquad (line 13) and nquad (line 38) integrate the same integrand over
\* the same triangle and return the same value.
C5_SameValue ==
    mq_pc = "done" => (area # None /\ nq_area = area)

\* both calls done; the value is the integral's, 1/96
C5_Witness ==
    /\ mq_pc = "done"
    /\ area = Result(Rat(1, 96))
    /\ nq_area = Result(Rat(1, 96))

----------------------------------------------------------------------------
(* general-integration.py, and lines 55-63 of banded-jacobian-matrix.py.     *)
(* The delegates (integrate.quad, integrate.odeint) are external: a run      *)
(* gives any outcome of a bounded set.  A quadrature value is an integer,   *)
(* its offset from the exact value of the integral at hand in units of the  *)
(* requested tolerance; abserr = 0 stands for an error estimate within the  *)
(* tolerance and abserr > 0 for a run that did not converge to it.  An      *)
(* entry of an odeint solution is an integer in units of 1e-8.              *)

\* a top-level quadrature's value is off by 0..MaxDev, its abserr is 0..MaxErr
MaxDev == 1
MaxErr == 1
\* the value of a quadrature inside expint is off by 0..MaxInnerDev
MaxInnerDev == 0
\* the outer rule of line 43 evaluates its integrand 1..MaxEvals times
MaxEvals == 2
\* a solution array has SolLen entries, each 0..MaxSolVal
SolLen == 2
MaxSolVal == 2

\* line 38: np.arange(1.0, 4.0, 0.5) has six entries
NExp == 6

\* lines 9-14 and line 44: the closed forms I and I3 are the exact values of
\* their integrals, offset 0
I_closed == 0
I3 == 0

\* np.allclose's default tolerances: atol = 1e-8, the unit, and rtol = 1e-5
RtolInv == 100000

\* integrate.quad(...) returns the tuple (value, abserr)
QuadRuns == {<<val, err>> : val \in 0 .. MaxDev, err \in 0 .. MaxErr}
InnerQuadRuns == {<<val, err>> : val \in 0 .. MaxInnerDev, err \in 0 .. MaxErr}
Run(site, r) == [site |-> site, value |-> r[1], abserr |-> r[2]]

\* lines 6, 25, 43: the whole tuple is assigned
Whole(r) == r

\* line 34: return integrate.quad(integrand, 1, np.inf, args=(n, x))[0]: the
\* value alone (a scalar is written as the 1-tuple of it, so that what expint
\* returns can be set beside the run's full tuple)
expintWhole(r) == r
expint(r) == <<r[1]>>

\* line 16: abs(result[0] - I)
AbsDeviation(res, ref) == Result(Abs(res[1] - ref))

\* line 46: I3 - result[0]
Deviation(ref, res) == Result(ref - res[1])

\* line 63: np.allclose(sol_a, sol_b): |a - b| <= atol + rtol * |b| everywhere
AllCloseAsserted(a, b) ==
    IF \A i \in 1 .. Len(a) : RtolInv * Abs(a[i] - b[i]) <= RtolInv + Abs(b[i])
    THEN Result(TRUE)
    ELSE [kind |-> "AssertionError"]
AllClose(a, b) ==
    Result(\A i \in 1 .. Len(a) : RtolInv * Abs(a[i] - b[i]) <= RtolInv + Abs(b[i]))

Solutions == [1 .. SolLen -> 0 .. MaxSolVal]

Printed(line, item) == [line |-> line, item |-> item]

ScFrame == UNCHANGED <<gsVars, odeVars, smpVars, mqVars>>

ScInit ==
    /\ sc_script \in {"general-integration", "banded-jacobian-matrix"}
    /\ sc_pc = IF sc_script = "general-integration" THEN "L6" ELSE "L56"
    /\ result = None
    /\ sc_I = None
    /\ sol_a = None
    /\ sol_b = None
    /\ sc_tmp = <<>>
    /\ sc_out = None
    /\ sc_run = None
    /\ sc_handed = None

\* line 6: result = integrate.quad(lambda x: special.jv(2.5, x), 0, 4.5)
GiLine6 ==
    /\ sc_pc = "L6"
    /\ \E r \in QuadRuns :
        /\ sc_run' = Run("L6", r)
        /\ sc_handed' = Whole(r)
        /\ result' = Whole(r)
    /\ sc_pc' = "L7"
    /\ UNCHANGED <<sc_script, sc_I, sol_a, sol_b, sc_tmp, sc_out>>
    /\ ScFrame

\* line 7: print(f"{result = }")
GiLine7 ==
    /\ sc_pc = "L7"
    /\ sc_out' = Printed("L7", result)
    /\ sc_pc' = "L9"
    /\ UNCHANGED <<sc_script, result, sc_I, sol_a, sol_b, sc_tmp, sc_run, sc_handed>>
    /\ ScFrame

\* lines 9-15: I = <closed form>; print(f"{I = }")
GiLine9 ==
    /\ sc_pc = "L9"
    /\ sc_I' = I_closed
    /\ sc_out' = Printed("L15", I_closed)
    /\ sc_pc' = "L16"
    /\ UNCHANGED <<sc_script, result, sol_a, sol_b, sc_tmp, sc_run, sc_handed>>
    /\ ScFrame

\* line 16: print(f"{abs(result[0] - I) = }"); an exception would end the script
GiLine16 ==
    /\ sc_pc = "L16"
    /\ LET c == AbsDeviation(result, sc_I)
       IN  /\ sc_out' = IF c.kind = "Result" THEN Printed("L16", c.value) ELSE sc_out
           /\ sc_pc' = IF c.kind = "Result" THEN "L25" ELSE "raised"
    /\ UNCHANGED <<sc_script, result, sc_I, sol_a, sol_b, sc_tmp, sc_run, sc_handed>>
    /\ ScFrame

\* line 25: I = integrate.quad(simple_integrand, 0, 1, args=(a, b))
GiLine25 ==
    /\ sc_pc = "L25"
    /\ \E r \in QuadRuns :
        /\ sc_run' = Run("L25", r)
        /\ sc_handed' = Whole(r)
        /\ sc_I' = Whole(r)
    /\ sc_pc' = "L26"
    /\ UNCHANGED <<sc_script, result, sol_a, sol_b, sc_tmp, sc_out>>
    /\ ScFrame

\* line 26: print(f"{I = }")
GiLine26 ==
    /\ sc_pc = "L26"
    /\ sc_out' = Printed("L26", sc_I)
    /\ sc_pc' = "L38"
    /\ UNCHANGED <<sc_script, result, sc_I, sol_a, sol_b, sc_tmp, sc_run, sc_handed>>
    /\ ScFrame

\* line 38: result = vec_expint(3, np.arange(1.0, 4.0, 0.5)): expint on each entry
\* (the extra call np.vectorize makes on the first entry to find the output
\* type, whose value it drops, is left out)
GiLine38 ==
    /\ sc_pc = "L38"
    /\ \/ /\ Len(sc_tmp) < NExp
          /\ \E r \in InnerQuadRuns :
              /\ sc_run' = Run("L34", r)
              /\ sc_handed' = expint(r)
              /\ sc_tmp' = Append(sc_tmp, expint(r))
          /\ UNCHANGED <<result, sc_pc>>
       \/ /\ Len(sc_tmp) = NExp
          /\ result' = sc_tmp
          /\ sc_tmp' = <<>>
          /\ sc_pc' = "L39"
          /\ UNCHANGED <<sc_run, sc_handed>>
    /\ UNCHANGED <<sc_script, sc_I, sol_a, sol_b, sc_out>>
    /\ ScFrame

\* line 39: print(f"{vec_expint(3, np.arange(1.0, 4.0, 0.5)) = }"): computed again
GiLine39 ==
    /\ sc_pc = "L39"
    /\ \/ /\ Len(sc_tmp) < NExp
          /\ \E r \in InnerQuadRuns :
              /\ sc_run' = Run("L34", r)
              /\ sc_handed' = expint(r)
              /\ sc_tmp' = Append(sc_tmp, expint(r))
          /\ UNCHANGED <<sc_out, sc_pc>>
       \/ /\ Len(sc_tmp) = NExp
          /\ sc_out' = Printed("L39", sc_tmp)
          /\ sc_tmp' = <<>>
          /\ sc_pc' = "L41"
          /\ UNCHANGED <<sc_run, sc_handed>>
    /\ UNCHANGED <<sc_script, result, sc_I, sol_a, sol_b>>
    /\ ScFrame

\* line 41: print(f"{special.expn(3, np.arange(1.0, 4.0, 0.5)) = }"): the exact values
GiLine41 ==
    /\ sc_pc = "L41"
    /\ sc_out' = Printed("L41", [i \in 1 .. NExp |-> <<0>>])
    /\ sc_pc' = "L43"
    /\ UNCHANGED <<sc_script, result, sc_I, sol_a, sol_b, sc_tmp, sc_run, sc_handed>>
    /\ ScFrame

\* line 43: result = integrate.quad(lambda x: expint(3, x), 0, np.inf): the outer
\* rule evaluates its integrand, a quadrature of its own each time, and returns
GiLine43 ==
    /\ sc_pc = "L43"
    /\ \/ /\ Len(sc_tmp) < MaxEvals
          /\ \E r \in InnerQuadRuns :
              /\ sc_run' = Run("L34", r)
              /\ sc_handed' = expint(r)
              /\ sc_tmp' = Append(sc_tmp, expint(r))
          /\ UNCHANGED <<result, sc_pc>>
       \/ /\ Len(sc_tmp) >= 1
          /\ \E r \in QuadRuns :
              /\ sc_run' = Run("L43", r)
              /\ sc_handed' = Whole(r)
              /\ result' = Whole(r)
          /\ sc_tmp' = <<>>
          /\ sc_pc' = "L45"
    /\ UNCHANGED <<sc_script, sc_I, sol_a, sol_b, sc_out>>
    /\ ScFrame

\* lines 44-45: I3 = 1.0 / 3.0; print(f"{result = }")
GiLine45 ==
    /\ sc_pc = "L45"
    /\ sc_out' = Printed("L45", result)
    /\ sc_pc' = "L46"
    /\ UNCHANGED <<sc_script, result, sc_I, sol_a, sol_b, sc_tmp, sc_run, sc_handed>>
    /\ ScFrame

\* line 46: print(f"{I3 - result[0] = }")
GiLine46 ==
    /\ sc_pc = "L46"
    /\ LET c == Deviation(I3, result)
       IN  /\ sc_out' = IF c.kind = "Result" THEN Printed("L46", c.value) ELSE sc_out
           /\ sc_pc' = IF c.kind = "Result" THEN "done" ELSE "raised"
    /\ UNCHANGED <<sc_script, result, sc_I, sol_a, sol_b, sc_tmp, sc_run, sc_handed>>
    /\ ScFrame

\* lines 55-57: sol_a = integrate.odeint(grayscott1d, y0, t, args=...); print
BjLine56 ==
    /\ sc_pc = "L56"
    /\ \E sol \in Solutions : sol_a' = sol /\ sc_out' = Printed("L57", sol)
    /\ sc_pc' = "L60"
    /\ UNCHANGED <<sc_script, result, sc_I, sol_b, sc_tmp, sc_run, sc_handed>>
    /\ ScFrame

\* lines 59-61: sol_b = integrate.odeint(..., ml=2, mu=2); print
BjLine60 ==
    /\ sc_pc = "L60"
    /\ \E sol \in Solutions : sol_b' = sol /\ sc_out' = Printed("L61", sol)
    /\ sc_pc' = "L63"
    /\ UNCHANGED <<sc_script, result, sc_I, sol_a, sc_tmp, sc_run, sc_handed>>
    /\ ScFrame

\* line 63: print(f"{np.allclose(sol_a, sol_b) = }")
BjLine63 ==
    /\ sc_pc = "L63"
    /\ LET c == AllClose(sol_a, sol_b)
       IN  /\ sc_out' = IF c.kind = "Result" THEN Printed("L63", c.value) ELSE sc_out
           /\ sc_pc' = IF c.kind = "Result" THEN "done" ELSE "raised"
    /\ UNCHANGED <<sc_script, result, sc_I, sol_a, sol_b, sc_tmp, sc_run, sc_handed>>
    /\ ScFrame

ScNext ==
    \/ GiLine6 \/ GiLine7 \/ GiLine9 \/ GiLine16 \/ GiLine25 \/ GiLine26
    \/ GiLine38 \/ GiLine39 \/ GiLine41 \/ GiLine43 \/ GiLine45 \/ GiLine46
    \/ BjLine56 \/ BjLine60 \/ BjLine63

InitScripts == ScInit /\ GsIdle /\ OdeIdle /\ SmpIdle /\ MqIdle

SpecScripts == InitScripts /\ [][ScNext]_vars

\* C6: comparing a result with its reference never raises and never ends the
\* script early: match or mismatch, the outcome is printed as data (line 16's
\* |result - I|, line 46's I3 - result, line 63's allclose flag, which is False
\* as soon as two entries are 2e-8 or more apart) and the script runs on to
\* its end.
C6_ComparisonIsData ==
    /\ sc_pc # "raised"
    /\ sc_pc # "done" => ENABLED ScNext
    /\ sc_pc = "L25" => sc_out = Printed("L16", Abs(result[1]))
    /\ (sc_script = "general-integration" /\ sc_pc = "done") =>
        sc_out = Printed("L46", -result[1])
    /\ (sc_script = "banded-jacobian-matrix" /\ sc_pc = "done") =>
        /\ sc_out.line = "L63"
        /\ sc_out.item = (\A i \in 1 .. SolLen : Abs(sol_a[i] - sol_b[i]) <= 1)

\* the banded run and the default run disagree, False is printed, the script
\* is at its end
C6_Witness ==
    /\ sc_script = "banded-jacobian-matrix"
    /\ sc_pc = "done"
    /\ \E i \in 1 .. SolLen : Abs(sol_a[i] - sol_b[i]) >= 2
    /\ sc_out = Printed("L63", FALSE)

====
